---- MODULE Spec2Model ----
(***************************************************************************)
(* WorkingCopyFileService (vs/workbench/services/workingCopy/common/        *)
(* workingCopyFileService.ts): move / copy / delete of resources,           *)
(* coordinated with the dirty working copies of the workbench.              *)
(*                                                                          *)
(* Every invocation is an async function.  Its suspension points are the    *)
(* awaits of the source: the will-run broadcast, Promise.all over the soft  *)
(* reverts, the file service call, and the did-run / did-fail broadcast.    *)
(* One action models the synchronous code between two suspension points.    *)
(***************************************************************************)
EXTENDS Integers, Sequences, FiniteSets

(***************************************************************************)
(* Bounds of the model.                                                     *)
(***************************************************************************)
\* number of invocations started on the service instance
MaxOps == 2

\* invocations that can be suspended at the same time
Inv == {1, 2}

(***************************************************************************)
(* Resources: URIs with a scheme and a path; a path is a sequence of        *)
(* characters so that containment on segment boundaries is computed.       *)
(***************************************************************************)
Root == <<"/">>
PathA == <<"/", "a">>
PathAB == <<"/", "a", "/", "b">>
PathABC == <<"/", "a", "/", "b", "c">>
PathZ == <<"/", "z">>
PathASlash == <<"/", "a", "/">>

URI(scheme, path) == [scheme |-> scheme, path |-> path]

Schemes == {"file", "untitled"}
Paths == {Root, PathA, PathASlash, PathAB, PathABC, PathZ}
Resources == {URI(s, p) : s \in Schemes, p \in Paths}

\* schemes for which the file service has a provider registered
Providers == {"file"}

\* IFileService.canHandleResource
canHandleResource(resource) == resource.scheme \in Providers

\* vs/base/common/resources isEqual
isEqual(first, second) == first = second

IsPrefix(s, t) == Len(s) <= Len(t) /\ SubSeq(t, 1, Len(s)) = s

WithSeparator(p) == IF Len(p) > 0 /\ p[Len(p)] = "/" THEN p ELSE Append(p, "/")

\* vs/base/common/resources isEqualOrParent(base, parentCandidate)
isEqualOrParent(base, parentCandidate) ==
    /\ base.scheme = parentCandidate.scheme
    /\ \/ base.path = parentCandidate.path
       \/ /\ Len(parentCandidate.path) <= Len(base.path)
          /\ IsPrefix(WithSeparator(parentCandidate.path), base.path)

(***************************************************************************)
(* Working copies known to the working copy service, in registry order.     *)
(***************************************************************************)
WorkingCopyList == << URI("file", PathABC), URI("untitled", PathABC) >>
WorkingCopies == {WorkingCopyList[k] : k \in 1..Len(WorkingCopyList)}

(***************************************************************************)
(* Requests of the callers, file metadata and errors of the file service.  *)
(***************************************************************************)
MoveOrCopyRequest(kind, source, target) == [kind |-> kind, source |-> source, target |-> target]
DeleteRequest(resource) == [kind |-> "DELETE", target |-> resource]

Requests ==
    { DeleteRequest(URI("file", PathABC)),
      DeleteRequest(URI("file", PathA)),
      DeleteRequest(URI("file", PathAB)),
      DeleteRequest(URI("untitled", PathA)),
      MoveOrCopyRequest("MOVE", URI("untitled", PathABC), URI("file", PathABC)),
      MoveOrCopyRequest("MOVE", URI("file", PathABC), URI("file", PathA)),
      MoveOrCopyRequest("COPY", URI("untitled", PathABC), URI("file", PathABC)),
      MoveOrCopyRequest("COPY", URI("file", PathABC), URI("file", PathA)) }

Stats == {"stat1", "stat2"}
FileErrors == {"FileNotFound", "NoPermissions"}
RevertError == "RevertFailed"

VARIABLES
    correlationIds,      \* WorkingCopyFileService.correlationIds
    dirty,               \* dirty flag of every working copy
    pc,                  \* suspension point of every invocation
    request,             \* arguments of every invocation
    correlationId,       \* const correlationId of every invocation
    dirtyWorkingCopies,  \* const dirtyWorkingCopies of every invocation
    reverts,             \* state of the revert promises of every invocation
    result,              \* stat / error of the file service call
    outcome,             \* what the caller of the invocation got
    trace,               \* history: steps of every invocation, in order
    started,             \* history: correlation ids in order of invocation
    redirtied            \* history: working copies edited after their revert by the invocation

vars == << correlationIds, dirty, pc, request, correlationId, dirtyWorkingCopies,
           reverts, result, outcome, trace, started, redirtied >>

NoRequest == [kind |-> "NONE"]
NoResult == [type |-> "none"]

\* IWorkingCopyService.dirtyWorkingCopies
dirtyWorkingCopiesOfService == SelectSeq(WorkingCopyList, LAMBDA w : dirty[w])

\* faulty variant: containment is used for every scheme
getDirtyWorkingCopiesAlwaysParent(resource) ==
    SelectSeq(dirtyWorkingCopiesOfService, LAMBDA w : isEqualOrParent(w, resource))

\* faulty variant: only the working copy of the resource itself is found
getDirtyWorkingCopiesEqualOnly(resource) ==
    SelectSeq(dirtyWorkingCopiesOfService, LAMBDA w : isEqual(w, resource))

\* WorkingCopyFileService.getDirtyWorkingCopies
getDirtyWorkingCopies(resource) ==
    SelectSeq(dirtyWorkingCopiesOfService,
              LAMBDA w : IF canHandleResource(resource)
                         THEN isEqualOrParent(w, resource)
                         ELSE isEqual(w, resource))

Init ==
    /\ correlationIds = 0
    /\ dirty \in [WorkingCopies -> BOOLEAN]
    /\ pc = [i \in Inv |-> "idle"]
    /\ request = [i \in Inv |-> NoRequest]
    /\ correlationId = [i \in Inv |-> -1]
    /\ dirtyWorkingCopies = [i \in Inv |-> <<>>]
    /\ reverts = [i \in Inv |-> <<>>]
    /\ result = [i \in Inv |-> NoResult]
    /\ outcome = [i \in Inv |-> NoResult]
    /\ trace = [i \in Inv |-> <<>>]
    /\ started = <<>>
    /\ redirtied = [i \in Inv |-> {}]

(***************************************************************************)
(* Helpers for the per-invocation state.                                    *)
(***************************************************************************)
Entry(step, data) == [step |-> step, data |-> data]
NoData == [none |-> TRUE]

\* CancellationToken.None
CancellationTokenNone == [isCancellationRequested |-> FALSE]

\* fireAsync(data, CancellationToken.None)
FireEntry(step, data) == [step |-> step, data |-> data, token |-> CancellationTokenNone]

Log(i, entries) == [trace EXCEPT ![i] = @ \o entries]

\* { correlationId, operation, target, source } / { correlationId, operation, target }
OperationEvent(cid, req) ==
    IF req.kind = "DELETE"
    THEN [correlationId |-> cid, operation |-> "DELETE", target |-> req.target]
    ELSE [correlationId |-> cid, operation |-> req.kind, target |-> req.target, source |-> req.source]

\* payload of _onWillRunWorkingCopyFileOperation.fireAsync
willRunEvent(cid, req) == OperationEvent(cid, req)

\* faulty variant: the id is read from the counter of the service
didFailEventFromCounter(cid, req, error) == OperationEvent(correlationIds - 1, req)

\* payload of _onDidFailWorkingCopyFileOperation.fireAsync
didFailEvent(cid, req, error) == OperationEvent(cid, req)

\* payload of _onDidRunWorkingCopyFileOperation.fireAsync
didRunEvent(cid, req, stat) == OperationEvent(cid, req)

\* faulty variant: the counter is read but not incremented
NextCorrelationIdsNoIncrement(c) == c

\* this.correlationIds++
NextCorrelationIds(c) == c + 1

\* faulty variant: source and target are reverted for copy as well
ResolveDirtyWorkingCopiesSourceToo(req) ==
    IF req.kind \in {"MOVE", "COPY"}
    THEN getDirtyWorkingCopies(req.source) \o getDirtyWorkingCopies(req.target)
    ELSE getDirtyWorkingCopies(req.target)

\* faulty variant: only the target is reverted for move as well
ResolveDirtyWorkingCopiesTargetOnly(req) == getDirtyWorkingCopies(req.target)

\* the dirty working copies an operation reverts:
\* move: source and target, copy: target, delete: resource
ResolveDirtyWorkingCopies(req) ==
    IF req.kind = "MOVE"
    THEN getDirtyWorkingCopies(req.source) \o getDirtyWorkingCopies(req.target)
    ELSE getDirtyWorkingCopies(req.target)

\* the file service call of an operation
DelegateCall(req) ==
    IF req.kind = "MOVE" THEN [fn |-> "move", source |-> req.source, target |-> req.target]
    ELSE IF req.kind = "COPY" THEN [fn |-> "copy", source |-> req.source, target |-> req.target]
    ELSE [fn |-> "del", resource |-> req.target]

\* what the file service call can resolve with
DelegateResults(req) == IF req.kind = "DELETE" THEN {"void"} ELSE Stats

PendingReverts(i) == {k \in DOMAIN reverts[i] : reverts[i][k] = "pending"}
DoneReverts(i) == {k \in DOMAIN reverts[i] : reverts[i][k] = "done"}
RevertedBy(i) == {dirtyWorkingCopies[i][k] : k \in DoneReverts(i)}

\* faulty variant: Promise.race instead of Promise.all
AnyRevertResolved(i) == reverts[i] = <<>> \/ \E k \in DOMAIN reverts[i] : reverts[i][k] = "done"

\* Promise.all(...) over the reverts has resolved
AllRevertsResolved(i) == \A k \in DOMAIN reverts[i] : reverts[i][k] = "done"

\* history: ids of the invocations that have reverted working copies and
\* have not called the file service yet
RevertedNotIssued ==
    { correlationId[j] : j \in { k \in Inv : /\ pc[k] = "reverting"
                                              /\ AllRevertsResolved(k)
                                              /\ RevertedBy(k) # {} } }

\* faulty variant: the will-run broadcast is fired but not awaited
StartWithoutAwait(i, req) ==
    /\ pc[i] = "idle"
    /\ \A j \in Inv : j < i => pc[j] # "idle"
    /\ Len(started) < MaxOps
    /\ correlationId' = [correlationId EXCEPT ![i] = correlationIds]
    /\ correlationIds' = NextCorrelationIds(correlationIds)
    /\ request' = [request EXCEPT ![i] = req]
    /\ LET copies == ResolveDirtyWorkingCopies(req) IN
         /\ dirtyWorkingCopies' = [dirtyWorkingCopies EXCEPT ![i] = copies]
         /\ reverts' = [reverts EXCEPT ![i] = [k \in 1..Len(copies) |-> "pending"]]
    /\ pc' = [pc EXCEPT ![i] = "reverting"]
    /\ trace' = Log(i, << FireEntry("fire will-run", willRunEvent(correlationIds, req)) >>)
    /\ started' = Append(started, correlationIds)
    /\ UNCHANGED << dirty, result, outcome, redirtied >>

(***************************************************************************)
(* move / copy / delete up to the first await: the correlation id is        *)
(* allocated and the will-run event is fired.                               *)
(***************************************************************************)
Start(i, req) ==
    /\ pc[i] = "idle"
    /\ \A j \in Inv : j < i => pc[j] # "idle"
    /\ Len(started) < MaxOps
    /\ correlationId' = [correlationId EXCEPT ![i] = correlationIds]
    /\ correlationIds' = NextCorrelationIds(correlationIds)
    /\ request' = [request EXCEPT ![i] = req]
    /\ pc' = [pc EXCEPT ![i] = "willRun"]
    /\ trace' = Log(i, << Entry("invoked", [afterRevertsOf |-> RevertedNotIssued]),
                          FireEntry("fire will-run", willRunEvent(correlationIds, req)) >>)
    /\ started' = Append(started, correlationIds)
    /\ UNCHANGED << dirty, dirtyWorkingCopies, reverts, result, outcome, redirtied >>

\* faulty variant: every matching working copy is reverted, dirty or not
WillRunCompleteAllWorkingCopies(i) ==
    /\ pc[i] = "willRun"
    /\ LET matching(resource) ==
                SelectSeq(WorkingCopyList,
                          LAMBDA w : IF canHandleResource(resource)
                                     THEN isEqualOrParent(w, resource)
                                     ELSE isEqual(w, resource))
           copies == IF request[i].kind = "MOVE"
                     THEN matching(request[i].source) \o matching(request[i].target)
                     ELSE matching(request[i].target)
       IN
         /\ dirtyWorkingCopies' = [dirtyWorkingCopies EXCEPT ![i] = copies]
         /\ reverts' = [reverts EXCEPT ![i] = [k \in 1..Len(copies) |-> "pending"]]
    /\ pc' = [pc EXCEPT ![i] = "reverting"]
    /\ trace' = Log(i, << Entry("will-run done", NoData) >>)
    /\ UNCHANGED << correlationIds, dirty, request, correlationId, result, outcome,
                    started, redirtied >>

\* faulty variant: a will-run listener may cancel, and the operation is then given up
WillRunCompleteAbortable(i) ==
    /\ pc[i] = "willRun"
    /\ \E cancelled \in BOOLEAN :
         IF cancelled
         THEN /\ pc' = [pc EXCEPT ![i] = "done"]
              /\ outcome' = [outcome EXCEPT ![i] = [type |-> "raised", error |-> "Canceled"]]
              /\ trace' = Log(i, << Entry("will-run cancelled", NoData) >>)
              /\ UNCHANGED << dirtyWorkingCopies, reverts >>
         ELSE /\ LET copies == ResolveDirtyWorkingCopies(request[i]) IN
                   /\ dirtyWorkingCopies' = [dirtyWorkingCopies EXCEPT ![i] = copies]
                   /\ reverts' = [reverts EXCEPT ![i] = [k \in 1..Len(copies) |-> "pending"]]
              /\ pc' = [pc EXCEPT ![i] = "reverting"]
              /\ trace' = Log(i, << Entry("will-run done", NoData) >>)
              /\ UNCHANGED outcome
    /\ UNCHANGED << correlationIds, dirty, request, correlationId, result, started, redirtied >>

(***************************************************************************)
(* The will-run broadcast has completed: the dirty working copies are       *)
(* resolved and revert({ soft: true }) is called on each of them.           *)
(***************************************************************************)
WillRunComplete(i) ==
    /\ pc[i] = "willRun"
    /\ LET copies == ResolveDirtyWorkingCopies(request[i]) IN
         /\ dirtyWorkingCopies' = [dirtyWorkingCopies EXCEPT ![i] = copies]
         /\ reverts' = [reverts EXCEPT ![i] = [k \in 1..Len(copies) |-> "pending"]]
    /\ pc' = [pc EXCEPT ![i] = "reverting"]
    /\ trace' = Log(i, << Entry("will-run done", NoData) >>)
    /\ UNCHANGED << correlationIds, dirty, request, correlationId, result, outcome,
                    started, redirtied >>

(***************************************************************************)
(* One soft revert resolves: the working copy is no longer dirty.           *)
(***************************************************************************)
RevertResolve(i, k) ==
    /\ pc[i] = "reverting"
    /\ k \in PendingReverts(i)
    /\ LET w == dirtyWorkingCopies[i][k] IN
         /\ dirty' = [dirty EXCEPT ![w] = FALSE]
         /\ redirtied' = [j \in Inv |-> redirtied[j] \ {w}]
    /\ reverts' = [reverts EXCEPT ![i][k] = "done"]
    /\ UNCHANGED << correlationIds, pc, request, correlationId, dirtyWorkingCopies,
                    result, outcome, trace, started >>

(***************************************************************************)
(* One soft revert rejects: Promise.all rejects, and as the await is        *)
(* outside of the try block the error is raised to the caller.  The         *)
(* reverts still in flight are no longer awaited by anyone.                 *)
(***************************************************************************)
RevertReject(i, k) ==
    /\ pc[i] = "reverting"
    /\ k \in PendingReverts(i)
    /\ reverts' = [reverts EXCEPT ![i][k] = "failed"]
    /\ pc' = [pc EXCEPT ![i] = "done"]
    /\ outcome' = [outcome EXCEPT ![i] = [type |-> "raised", error |-> RevertError]]
    /\ trace' = Log(i, << Entry("revert failed", [workingCopy |-> dirtyWorkingCopies[i][k]]) >>)
    /\ UNCHANGED << correlationIds, dirty, request, correlationId, dirtyWorkingCopies,
                    result, started, redirtied >>

\* faulty variant: the file service calls of different invocations exclude each other
IssueDelegateSerialized(i) ==
    /\ pc[i] = "reverting"
    /\ AllRevertsResolved(i)
    /\ \A j \in Inv \ {i} : pc[j] # "disk"
    /\ pc' = [pc EXCEPT ![i] = "disk"]
    /\ trace' = Log(i, << Entry("call", DelegateCall(request[i])) >>)
    /\ UNCHANGED << correlationIds, dirty, request, correlationId, dirtyWorkingCopies,
                    reverts, result, outcome, started, redirtied >>

(***************************************************************************)
(* Promise.all has resolved: fileService.move / copy / del is called.       *)
(***************************************************************************)
IssueDelegate(i) ==
    /\ pc[i] = "reverting"
    /\ AllRevertsResolved(i)
    /\ pc' = [pc EXCEPT ![i] = "disk"]
    /\ trace' = Log(i, << Entry("call", DelegateCall(request[i])) >>)
    /\ UNCHANGED << correlationIds, dirty, request, correlationId, dirtyWorkingCopies,
                    reverts, result, outcome, started, redirtied >>

(***************************************************************************)
(* The file service call resolves: the did-run event is fired.              *)
(***************************************************************************)
DelegateReturn(i, stat) ==
    /\ pc[i] = "disk"
    /\ stat \in DelegateResults(request[i])
    /\ result' = [result EXCEPT ![i] = [type |-> "stat", stat |-> stat]]
    /\ pc' = [pc EXCEPT ![i] = "didRun"]
    /\ trace' = Log(i, << Entry("returned", [stat |-> stat]),
                          FireEntry("fire did-run", didRunEvent(correlationId[i], request[i], stat)) >>)
    /\ UNCHANGED << correlationIds, dirty, request, correlationId, dirtyWorkingCopies,
                    reverts, outcome, started, redirtied >>

\* faulty variant: the did-run event is fired although the file service call rejected
DelegateThrowFiresDidRun(i, error) ==
    /\ pc[i] = "disk"
    /\ result' = [result EXCEPT ![i] = [type |-> "error", error |-> error]]
    /\ pc' = [pc EXCEPT ![i] = "didFail"]
    /\ trace' = Log(i, << Entry("threw", [error |-> error]),
                          FireEntry("fire did-run", OperationEvent(correlationId[i], request[i])) >>)
    /\ UNCHANGED << correlationIds, dirty, request, correlationId, dirtyWorkingCopies,
                    reverts, outcome, started, redirtied >>

\* faulty variant: the catch block makes the reverted working copies dirty again
DelegateThrowWithRollback(i, error) ==
    /\ pc[i] = "disk"
    /\ result' = [result EXCEPT ![i] = [type |-> "error", error |-> error]]
    /\ pc' = [pc EXCEPT ![i] = "didFail"]
    /\ dirty' = [w \in WorkingCopies |-> dirty[w] \/ w \in RevertedBy(i)]
    /\ trace' = Log(i, << Entry("threw", [error |-> error]),
                          FireEntry("fire did-fail", didFailEvent(correlationId[i], request[i], error)) >>)
    /\ UNCHANGED << correlationIds, request, correlationId, dirtyWorkingCopies,
                    reverts, outcome, started, redirtied >>

(***************************************************************************)
(* The file service call rejects: the catch block fires the did-fail event. *)
(***************************************************************************)
DelegateThrow(i, error) ==
    /\ pc[i] = "disk"
    /\ result' = [result EXCEPT ![i] = [type |-> "error", error |-> error]]
    /\ pc' = [pc EXCEPT ![i] = "didFail"]
    /\ trace' = Log(i, << Entry("threw", [error |-> error]),
                          FireEntry("fire did-fail", didFailEvent(correlationId[i], request[i], error)) >>)
    /\ UNCHANGED << correlationIds, dirty, request, correlationId, dirtyWorkingCopies,
                    reverts, outcome, started, redirtied >>

\* faulty variant: the stat of the file service is not returned
DidRunCompleteWithoutStat(i) ==
    /\ pc[i] = "didRun"
    /\ pc' = [pc EXCEPT ![i] = "done"]
    /\ outcome' = [outcome EXCEPT ![i] = [type |-> "returned", stat |-> "void"]]
    /\ trace' = Log(i, << Entry("did-run done", NoData) >>)
    /\ UNCHANGED << correlationIds, dirty, request, correlationId, dirtyWorkingCopies,
                    reverts, result, started, redirtied >>

(***************************************************************************)
(* The did-run broadcast has completed: return stat.                        *)
(***************************************************************************)
DidRunComplete(i) ==
    /\ pc[i] = "didRun"
    /\ pc' = [pc EXCEPT ![i] = "done"]
    /\ outcome' = [outcome EXCEPT ![i] = [type |-> "returned", stat |-> result[i].stat]]
    /\ trace' = Log(i, << Entry("did-run done", NoData) >>)
    /\ UNCHANGED << correlationIds, dirty, request, correlationId, dirtyWorkingCopies,
                    reverts, result, started, redirtied >>

\* faulty variant: the catch block does not rethrow
DidFailCompleteSwallow(i) ==
    /\ pc[i] = "didFail"
    /\ pc' = [pc EXCEPT ![i] = "done"]
    /\ outcome' = [outcome EXCEPT ![i] = [type |-> "returned", stat |-> "void"]]
    /\ trace' = Log(i, << Entry("did-fail done", NoData) >>)
    /\ UNCHANGED << correlationIds, dirty, request, correlationId, dirtyWorkingCopies,
                    reverts, result, started, redirtied >>

(***************************************************************************)
(* The did-fail broadcast has completed: throw error.                       *)
(***************************************************************************)
DidFailComplete(i) ==
    /\ pc[i] = "didFail"
    /\ pc' = [pc EXCEPT ![i] = "done"]
    /\ outcome' = [outcome EXCEPT ![i] = [type |-> "raised", error |-> result[i].error]]
    /\ trace' = Log(i, << Entry("did-fail done", NoData) >>)
    /\ UNCHANGED << correlationIds, dirty, request, correlationId, dirtyWorkingCopies,
                    reverts, result, started, redirtied >>

(***************************************************************************)
(* The caller has consumed the settled promise of an invocation.            *)
(***************************************************************************)
Forget(i) ==
    /\ pc[i] = "done"
    /\ pc' = [pc EXCEPT ![i] = "idle"]
    /\ request' = [request EXCEPT ![i] = NoRequest]
    /\ correlationId' = [correlationId EXCEPT ![i] = -1]
    /\ dirtyWorkingCopies' = [dirtyWorkingCopies EXCEPT ![i] = <<>>]
    /\ reverts' = [reverts EXCEPT ![i] = <<>>]
    /\ result' = [result EXCEPT ![i] = NoResult]
    /\ outcome' = [outcome EXCEPT ![i] = NoResult]
    /\ trace' = [trace EXCEPT ![i] = <<>>]
    /\ redirtied' = [redirtied EXCEPT ![i] = {}]
    /\ UNCHANGED << correlationIds, dirty, started >>

(***************************************************************************)
(* The environment: a working copy is edited or saved, by the user or by a  *)
(* listener of one of the broadcasts, or cleaned by a revert that is no     *)
(* longer awaited.                                                          *)
(***************************************************************************)
MakeDirty(w) ==
    /\ ~dirty[w]
    /\ dirty' = [dirty EXCEPT ![w] = TRUE]
    /\ redirtied' = [i \in Inv |-> IF w \in RevertedBy(i) THEN redirtied[i] \cup {w} ELSE redirtied[i]]
    /\ UNCHANGED << correlationIds, pc, request, correlationId, dirtyWorkingCopies,
                    reverts, result, outcome, trace, started >>

MakeClean(w) ==
    /\ dirty[w]
    /\ dirty' = [dirty EXCEPT ![w] = FALSE]
    /\ redirtied' = [j \in Inv |-> redirtied[j] \ {w}]
    /\ UNCHANGED << correlationIds, pc, request, correlationId, dirtyWorkingCopies,
                    reverts, result, outcome, trace, started >>

Next ==
    \/ \E i \in Inv, req \in Requests : Start(i, req)
    \/ \E i \in Inv : WillRunComplete(i)
    \/ \E i \in Inv, k \in 1..(2 * Len(WorkingCopyList)) : RevertResolve(i, k)
    \/ \E i \in Inv, k \in 1..(2 * Len(WorkingCopyList)) : RevertReject(i, k)
    \/ \E i \in Inv : IssueDelegate(i)
    \/ \E i \in Inv, stat \in Stats \cup {"void"} : DelegateReturn(i, stat)
    \/ \E i \in Inv, error \in FileErrors : DelegateThrow(i, error)
    \/ \E i \in Inv : DidRunComplete(i)
    \/ \E i \in Inv : DidFailComplete(i)
    \/ \E i \in Inv : Forget(i)
    \/ \E w \in WorkingCopies : MakeDirty(w)
    \/ \E w \in WorkingCopies : MakeClean(w)

Spec == Init /\ [][Next]_vars

TypeOK ==
    /\ correlationIds \in 0..MaxOps
    /\ \A i \in Inv : pc[i] \in {"idle", "willRun", "reverting", "disk", "didRun", "didFail", "done"}

(***************************************************************************)
(* Reading the history of an invocation.                                    *)
(***************************************************************************)
Positions(i, step) == {p \in DOMAIN trace[i] : trace[i][p].step = step}
Has(i, step) == Positions(i, step) # {}
Pos(i, step) == CHOOSE p \in Positions(i, step) : \A q \in Positions(i, step) : p <= q
Before(i, first, second) == Has(i, first) /\ Has(i, second) /\ Pos(i, first) < Pos(i, second)
Range(seq) == {seq[k] : k \in DOMAIN seq}

(***************************************************************************)
(* C1: the file service call of an invocation is issued only after the      *)
(* will-run broadcast of that invocation has been fired and has completed.  *)
(***************************************************************************)
C1_WillRunCompletesBeforeDelegate ==
    \A i \in Inv :
        /\ Has(i, "call") =>
              /\ Before(i, "fire will-run", "will-run done")
              /\ Before(i, "will-run done", "call")
        /\ pc[i] = "willRun" => ~Has(i, "call")

C1_Witness == \E i \in Inv : pc[i] = "disk" /\ Has(i, "call")

(***************************************************************************)
(* C2: when the file service call of an invocation has been issued, every   *)
(* soft revert of its resolved dirty working copies has completed.          *)
(***************************************************************************)
C2_RevertsFanInBeforeDelegate ==
    \A i \in Inv :
        Has(i, "call") =>
            /\ DOMAIN reverts[i] = DOMAIN dirtyWorkingCopies[i]
            /\ \A k \in DOMAIN dirtyWorkingCopies[i] : reverts[i][k] = "done"

C2_Witness ==
    \E i \in Inv :
        /\ Has(i, "call")
        /\ Cardinality(Range(dirtyWorkingCopies[i])) >= 2

(***************************************************************************)
(* C3: an invocation that has finished has fired exactly one of did-run     *)
(* and did-fail.                                                            *)
(***************************************************************************)
C3_ExactlyOneOfDidRunDidFail ==
    \A i \in Inv :
        pc[i] = "done" => (Has(i, "fire did-run") # Has(i, "fire did-fail"))

(***************************************************************************)
(* C4: when the file service call raises an error, did-fail is fired, and   *)
(* after the did-fail broadcast has completed that same error is raised to  *)
(* the caller; the invocation never returns and never raises another error. *)
(***************************************************************************)
C4_DelegateErrorRethrownAfterDidFail ==
    \A i \in Inv :
        Has(i, "threw") =>
            LET error == trace[i][Pos(i, "threw")].data.error IN
                /\ Before(i, "threw", "fire did-fail")
                /\ ~Has(i, "fire did-run")
                /\ pc[i] \in {"didFail", "done"}
                /\ outcome[i].type # "returned"
                /\ pc[i] = "done" =>
                      /\ outcome[i] = [type |-> "raised", error |-> error]
                      /\ Before(i, "fire did-fail", "did-fail done")
                /\ pc[i] = "didFail" => outcome[i] = NoResult

C4_Witness ==
    \E i \in Inv :
        /\ pc[i] = "done"
        /\ Has(i, "threw")
        /\ outcome[i] = [type |-> "raised", error |-> "FileNotFound"]

(***************************************************************************)
(* C5: the correlation ids are pairwise distinct and strictly increasing    *)
(* in the order in which the invocations were started.                      *)
(***************************************************************************)
C5_CorrelationIdsStrictlyIncreasing ==
    /\ \A p, q \in DOMAIN started : p < q => started[p] < started[q]
    /\ \A i, j \in Inv :
          (i # j /\ pc[i] # "idle" /\ pc[j] # "idle") => correlationId[i] # correlationId[j]
    /\ \A i \in Inv : pc[i] # "idle" => correlationId[i] \in Range(started)

C5_Witness ==
    /\ Len(started) >= 2
    /\ \A i \in Inv : pc[i] \in {"willRun", "reverting", "disk", "didRun", "didFail"}

(***************************************************************************)
(* The path relation of the dirty-set resolver: a working copy is rooted    *)
(* at a resource when it is that resource or, for a scheme the file service *)
(* handles as a folder-like tree, lies below it on a segment boundary.      *)
(***************************************************************************)
Descendant(path, ancestor) ==
    /\ Len(ancestor) < Len(path)
    /\ \A k \in 1..Len(ancestor) : path[k] = ancestor[k]
    /\ \/ ancestor[Len(ancestor)] = "/"
       \/ path[Len(ancestor) + 1] = "/"

RootedAt(w, resource) ==
    \/ w = resource
    \/ /\ canHandleResource(resource)
       /\ w.scheme = resource.scheme
       /\ Descendant(w.path, resource.path)

\* the step of an invocation that resolves its dirty working copies
ResolveStep(i) == pc[i] = "willRun" /\ pc'[i] = "reverting"

(***************************************************************************)
(* C6 as claimed: after a delete has returned, the working copies it found  *)
(* dirty at or below the resource are not dirty.                            *)
(***************************************************************************)
C6_NotDirtyAfterDelete ==
    \A i \in Inv :
        (request[i].kind = "DELETE" /\ pc[i] = "done" /\ outcome[i].type = "returned") =>
            \A w \in Range(dirtyWorkingCopies[i]) : ~dirty[w]

(***************************************************************************)
(* C6 as amended: every working copy that is dirty and rooted at the        *)
(* resource when a delete resolves its dirty set is soft-reverted before    *)
(* del is issued, and from then on, also after delete has returned, it is   *)
(* dirty only if it was edited again after that revert.                     *)
(***************************************************************************)
C6_RevertedByDeleteUnlessEditedAgain ==
    [][\A i \in Inv :
          /\ (ResolveStep(i) /\ request[i].kind = "DELETE") =>
                \A w \in WorkingCopies :
                    (dirty[w] /\ RootedAt(w, request[i].target)) =>
                        w \in Range(dirtyWorkingCopies'[i])
          /\ (request[i].kind = "DELETE" /\ Has(i, "call"))' =>
                (\A w \in Range(dirtyWorkingCopies[i]) :
                    /\ w \in RevertedBy(i)
                    /\ dirty[w] => w \in redirtied[i])'
      ]_vars

C6_Witness ==
    \E i \in Inv :
        /\ request[i].kind = "DELETE"
        /\ pc[i] = "done"
        /\ outcome[i].type = "returned"
        /\ \E w \in Range(dirtyWorkingCopies[i]) : w # request[i].target /\ ~dirty[w]

(***************************************************************************)
(* C7: getDirtyWorkingCopies(resource) returns, each once, exactly the      *)
(* dirty working copies that are the resource or, for a scheme handled by   *)
(* the file service, lie below it on a segment boundary.                    *)
(***************************************************************************)
C7_ResolveReturnsExactlyRooted ==
    \A resource \in Resources :
        LET found == getDirtyWorkingCopies(resource) IN
            /\ Range(found) = {w \in WorkingCopies : dirty[w] /\ RootedAt(w, resource)}
            /\ Cardinality(Range(found)) = Len(found)
            /\ ~canHandleResource(resource) => Range(found) \subseteq {resource}

C7_Witness ==
    \E i, j \in Inv :
        /\ request[i] = DeleteRequest(URI("file", PathAB))
        /\ pc[i] = "disk"
        /\ dirtyWorkingCopies[i] = <<>>
        /\ request[j] = DeleteRequest(URI("file", PathA))
        /\ pc[j] = "reverting"
        /\ dirtyWorkingCopies[j] = << URI("file", PathABC) >>
        /\ reverts[j] = << "pending" >>
        /\ dirty[URI("file", PathABC)]

(***************************************************************************)
(* C8 as claimed: a copy reverts no working copy rooted at its source, only *)
(* working copies rooted at its target.                                     *)
(***************************************************************************)
C8_CopyNeverRevertsSourceRooted ==
    \A i \in Inv :
        request[i].kind = "COPY" =>
            \A w \in Range(dirtyWorkingCopies[i]) :
                /\ RootedAt(w, request[i].target)
                /\ ~RootedAt(w, request[i].source)

(***************************************************************************)
(* C8 as amended: a copy reverts only working copies rooted at its target;  *)
(* a working copy rooted at its source is reverted only when it is rooted   *)
(* at the target as well.                                                   *)
(***************************************************************************)
C8_CopyRevertsOnlyTargetRooted ==
    \A i \in Inv :
        request[i].kind = "COPY" =>
            /\ \A w \in Range(dirtyWorkingCopies[i]) : RootedAt(w, request[i].target)
            /\ \A w \in WorkingCopies :
                  (RootedAt(w, request[i].source) /\ ~RootedAt(w, request[i].target)) =>
                      w \notin RevertedBy(i)

C8_Witness ==
    \E i \in Inv :
        /\ request[i].kind = "COPY"
        /\ Has(i, "call")
        /\ RevertedBy(i) # {}
        /\ request[i].source \notin RevertedBy(i)
        /\ dirty[request[i].source]

(***************************************************************************)
(* C9: every working copy that is dirty and rooted at the source or at the  *)
(* target when a move resolves its dirty set has been soft-reverted when    *)
(* fileService.move is issued.                                              *)
(***************************************************************************)
C9_MoveRevertsSourceAndTargetRooted ==
    [][\A i \in Inv :
          /\ (ResolveStep(i) /\ request[i].kind = "MOVE") =>
                \A w \in WorkingCopies :
                    (dirty[w] /\ (RootedAt(w, request[i].source) \/ RootedAt(w, request[i].target))) =>
                        w \in Range(dirtyWorkingCopies'[i])
          /\ (request[i].kind = "MOVE" /\ Has(i, "call"))' =>
                (\A w \in Range(dirtyWorkingCopies[i]) : w \in RevertedBy(i))'
      ]_vars

C9_Witness ==
    \E i \in Inv :
        /\ request[i].kind = "MOVE"
        /\ pc[i] = "disk"
        /\ request[i].source \in RevertedBy(i)
        /\ request[i].target \in RevertedBy(i)
        /\ request[i].source # request[i].target

(***************************************************************************)
(* C10 as claimed: the did-run event of a move or copy carries the          *)
(* descriptor of the will-run event plus the stat of the file service, and  *)
(* the invocation returns that stat.                                        *)
(***************************************************************************)
C10_DidRunCarriesStat ==
    \A i \in Inv :
        (request[i].kind \in {"MOVE", "COPY"} /\ Has(i, "fire did-run")) =>
            LET willRun == trace[i][Pos(i, "fire will-run")].data
                didRun == trace[i][Pos(i, "fire did-run")].data
                stat == trace[i][Pos(i, "returned")].data.stat
            IN  /\ \A field \in DOMAIN willRun : field \in DOMAIN didRun /\ didRun[field] = willRun[field]
                /\ "stat" \in DOMAIN didRun
                /\ didRun.stat = stat
                /\ pc[i] = "done" => outcome[i] = [type |-> "returned", stat |-> stat]

(***************************************************************************)
(* C10 as amended: the did-run event of a move or copy is the descriptor of *)
(* the will-run event (correlation id, operation, target, source) and       *)
(* nothing else; the stat of the file service is not in the event, it is    *)
(* what the invocation returns.                                             *)
(***************************************************************************)
C10_DidRunIsDescriptorAndStatReturned ==
    \A i \in Inv :
        (request[i].kind \in {"MOVE", "COPY"} /\ Has(i, "fire did-run")) =>
            LET willRun == trace[i][Pos(i, "fire will-run")].data
                didRun == trace[i][Pos(i, "fire did-run")].data
                stat == trace[i][Pos(i, "returned")].data.stat
            IN  /\ didRun = willRun
                /\ DOMAIN didRun = {"correlationId", "operation", "target", "source"}
                /\ stat \in Stats
                /\ pc[i] = "done" => outcome[i] = [type |-> "returned", stat |-> stat]

C10_Witness ==
    \E i \in Inv :
        /\ request[i].kind = "MOVE"
        /\ pc[i] = "done"
        /\ Has(i, "fire did-run")
        /\ outcome[i] = [type |-> "returned", stat |-> "stat2"]

(***************************************************************************)
(* C11: the did-run or did-fail event of an invocation carries the          *)
(* correlation id, operation, source and target of the will-run event of    *)
(* that invocation, whatever other invocations do in between.               *)
(***************************************************************************)
SameDescriptor(first, second) ==
    \A field \in {"correlationId", "operation", "source", "target"} :
        /\ field \in DOMAIN first <=> field \in DOMAIN second
        /\ field \in DOMAIN first => first[field] = second[field]

C11_SameDescriptorInAllBroadcasts ==
    \A i \in Inv :
        /\ Has(i, "fire will-run") =>
              trace[i][Pos(i, "fire will-run")].data.correlationId = correlationId[i]
        /\ \A step \in {"fire did-run", "fire did-fail"} :
              Has(i, step) =>
                  SameDescriptor(trace[i][Pos(i, "fire will-run")].data, trace[i][Pos(i, step)].data)

C11_Witness ==
    \E i, j \in Inv :
        /\ correlationId[i] >= 0
        /\ correlationId[i] < correlationId[j]
        /\ pc[i] = "didFail"
        /\ pc[j] = "didRun"
        /\ Has(i, "fire did-fail")
        /\ Has(j, "fire did-run")

(***************************************************************************)
(* C12: when the file service call has failed, every working copy the       *)
(* invocation reverted stays reverted: when did-fail fires and when the     *)
(* error reaches the caller it is dirty only if somebody else edited it     *)
(* after the revert.                                                        *)
(***************************************************************************)
C12_RevertsNotRolledBackOnFailure ==
    \A i \in Inv :
        Has(i, "threw") =>
            /\ \A k \in DOMAIN dirtyWorkingCopies[i] : reverts[i][k] = "done"
            /\ \A w \in Range(dirtyWorkingCopies[i]) : dirty[w] => w \in redirtied[i]

C12_Witness ==
    \E i \in Inv :
        /\ pc[i] = "done"
        /\ outcome[i].type = "raised"
        /\ Has(i, "did-fail done")
        /\ RevertedBy(i) # {}
        /\ \A w \in RevertedBy(i) : ~dirty[w]

(***************************************************************************)
(* C13: will-run listeners cannot stop the operation: the token handed to   *)
(* every broadcast is never cancelled, the file service call is issued at   *)
(* most once, it can always be issued once the reverts have resolved, and   *)
(* every invocation that got past its reverts has issued it exactly once.   *)
(***************************************************************************)
C13_ListenersCannotAbort ==
    \A i \in Inv :
        /\ \A p \in DOMAIN trace[i] :
              trace[i][p].step \in {"fire will-run", "fire did-run", "fire did-fail"} =>
                  /\ "token" \in DOMAIN trace[i][p]
                  /\ ~trace[i][p].token.isCancellationRequested
        /\ Cardinality(Positions(i, "call")) <= 1
        /\ (pc[i] = "reverting" /\ AllRevertsResolved(i)) => ENABLED IssueDelegate(i)
        /\ (pc[i] \in {"disk", "didRun", "didFail"} \/ (pc[i] = "done" /\ ~Has(i, "revert failed")))
               => Cardinality(Positions(i, "call")) = 1

C13_Witness ==
    \E i \in Inv :
        /\ pc[i] = "disk"
        /\ Has(i, "will-run done")
        /\ Cardinality(Positions(i, "call")) = 1
        /\ Len(dirtyWorkingCopies[i]) = 2
        /\ \E w \in WorkingCopies : dirty[w]

(***************************************************************************)
(* C14: a rejected revert is handled like a rejected file service call:     *)
(* the did-fail event with the correlation id of the invocation is fired    *)
(* and has completed before the error reaches the caller.                   *)
(***************************************************************************)
C14_RevertFailureFiresDidFail ==
    \A i \in Inv :
        (pc[i] = "done" /\ Has(i, "revert failed")) =>
            /\ outcome[i].type = "raised"
            /\ Has(i, "fire did-fail")
            /\ Has(i, "did-fail done")
            /\ trace[i][Pos(i, "fire did-fail")].data.correlationId = correlationId[i]

(***************************************************************************)
(* C15: did-run is fired only after the file service call has resolved,     *)
(* did-fail only after it has rejected, and neither of them while the call  *)
(* has not been issued or is still running.                                 *)
(***************************************************************************)
C15_DidRunDidFailAfterDelegateSettled ==
    \A i \in Inv :
        /\ Has(i, "fire did-run") =>
              /\ Before(i, "call", "returned")
              /\ Before(i, "returned", "fire did-run")
              /\ ~Has(i, "threw")
              /\ result[i].type = "stat"
        /\ Has(i, "fire did-fail") =>
              /\ Before(i, "call", "threw")
              /\ Before(i, "threw", "fire did-fail")
              /\ ~Has(i, "returned")
              /\ result[i].type = "error"
        /\ pc[i] \in {"willRun", "reverting", "disk"} =>
              ~Has(i, "fire did-run") /\ ~Has(i, "fire did-fail")

C15_Witness ==
    \E i, j \in Inv :
        /\ i # j
        /\ pc[i] = "done" /\ Has(i, "fire did-run") /\ Has(i, "returned")
        /\ pc[j] = "done" /\ Has(j, "fire did-fail") /\ Has(j, "threw")

(***************************************************************************)
(* C16: invocations are not serialized: whatever the other invocations are  *)
(* doing, an invocation can start and a suspended invocation can take its   *)
(* next step.  The witness is the interleaving of the claim: an invocation  *)
(* that started after another one had reverted has itself reverted and had  *)
(* its file service call settled while the other has still not called.      *)
(***************************************************************************)
C16_NoSerialization ==
    \A i \in Inv :
        /\ (pc[i] = "idle" /\ (\A j \in Inv : j < i => pc[j] # "idle") /\ Len(started) < MaxOps)
               => \A req \in Requests : ENABLED Start(i, req)
        /\ pc[i] = "willRun" => ENABLED WillRunComplete(i)
        /\ pc[i] = "reverting" => \A k \in PendingReverts(i) : ENABLED RevertResolve(i, k)
        /\ (pc[i] = "reverting" /\ AllRevertsResolved(i)) => ENABLED IssueDelegate(i)
        /\ pc[i] = "disk" => \A stat \in DelegateResults(request[i]) : ENABLED DelegateReturn(i, stat)
        /\ pc[i] = "disk" => \A error \in FileErrors : ENABLED DelegateThrow(i, error)
        /\ pc[i] = "didRun" => ENABLED DidRunComplete(i)
        /\ pc[i] = "didFail" => ENABLED DidFailComplete(i)

C16_Witness ==
    \E i, j \in Inv :
        /\ i # j
        /\ pc[i] = "reverting" /\ AllRevertsResolved(i) /\ RevertedBy(i) # {}
        /\ Has(j, "invoked")
        /\ correlationId[i] \in trace[j][Pos(j, "invoked")].data.afterRevertsOf
        /\ Has(j, "will-run done")
        /\ RevertedBy(j) = RevertedBy(i)
        /\ Has(j, "call")
        /\ Has(j, "returned") \/ Has(j, "threw")

(***************************************************************************)
(* Scheduling: a broadcast that was fired completes, every revert that was  *)
(* started settles, the continuation after Promise.all runs, the file       *)
(* service call settles.  Nothing is assumed about new invocations, edits   *)
(* or the caller dropping a finished invocation.                            *)
(***************************************************************************)
Settles(i) ==
    /\ WF_vars(WillRunComplete(i))
    /\ WF_vars(\E k \in DOMAIN reverts[i] : RevertResolve(i, k) \/ RevertReject(i, k))
    /\ WF_vars(IssueDelegate(i))
    /\ WF_vars(\/ \E stat \in Stats \cup {"void"} : DelegateReturn(i, stat)
               \/ \E error \in FileErrors : DelegateThrow(i, error))
    /\ WF_vars(DidRunComplete(i))
    /\ WF_vars(DidFailComplete(i))

FairSpec == Spec /\ \A i \in Inv : Settles(i)

InFlight(i) == pc[i] \in {"willRun", "reverting", "disk", "didRun", "didFail"}

(***************************************************************************)
(* C17: every invocation that was started eventually finishes, having       *)
(* fired did-run and returned or having fired did-fail and raised.          *)
(***************************************************************************)
C17_EventuallyDidRunOrDidFail ==
    \A i \in Inv :
        InFlight(i) ~>
            /\ pc[i] = "done"
            /\ \/ Has(i, "did-run done") /\ outcome[i].type = "returned"
               \/ Has(i, "did-fail done") /\ outcome[i].type = "raised"

\* every invocation that was started eventually returns or raises
EventuallyFinishes == \A i \in Inv : InFlight(i) ~> pc[i] = "done"

(***************************************************************************)
(* C18: within one invocation revert({ soft: true }) is called at most      *)
(* once on each working copy, also for a move whose source and target both  *)
(* match the working copy.                                                  *)
(***************************************************************************)
C18_EachCopyRevertedAtMostOnce ==
    \A i \in Inv : \A w \in WorkingCopies :
        Cardinality({k \in DOMAIN dirtyWorkingCopies[i] : dirtyWorkingCopies[i][k] = w}) <= 1

(***************************************************************************)
(* C19: the working copies an invocation reverts are exactly the matching   *)
(* working copies that are dirty in the state in which its will-run         *)
(* broadcast completes, revert is called on each of them in that step, and  *)
(* the list is never extended or shortened afterwards.  In the witness a    *)
(* matching working copy that became dirty later is dirty, and not          *)
(* reverted, while the file service call is running.                        *)
(***************************************************************************)
Matching(w, req) ==
    \/ RootedAt(w, req.target)
    \/ req.kind = "MOVE" /\ RootedAt(w, req.source)

C19_RevertsExactlyDirtyAtWillRunCompletion ==
    [][\A i \in Inv :
          /\ ResolveStep(i) =>
                /\ Range(dirtyWorkingCopies'[i]) =
                       {w \in WorkingCopies : dirty[w] /\ Matching(w, request[i])}
                /\ DOMAIN reverts'[i] = DOMAIN dirtyWorkingCopies'[i]
                /\ \A k \in DOMAIN reverts'[i] : reverts'[i][k] = "pending"
          /\ dirtyWorkingCopies'[i] # dirtyWorkingCopies[i] =>
                ResolveStep(i) \/ pc'[i] = "idle"
          /\ \A w \in WorkingCopies :
                (dirty[w] /\ ~dirty'[w] /\ pc'[i] = "reverting" /\ reverts'[i] # reverts[i])
                    => w \in Range(dirtyWorkingCopies[i])
      ]_vars

C19_Witness ==
    \E i \in Inv : \E w \in WorkingCopies :
        /\ pc[i] = "disk"
        /\ RevertedBy(i) # {}
        /\ Matching(w, request[i])
        /\ w \notin Range(dirtyWorkingCopies[i])
        /\ dirty[w]

====
